---- MODULE Spec2Model ----
(***************************************************************************)
(* The ctags output parser of arduino-cli (package ctags): CTagsParser.    *)
(* Parse decodes the rows of a ctags run into CTag records and runs the    *)
(* filter stages that decide which tags get a generated prototype.         *)
(*                                                                         *)
(* A Go string is modelled as a sequence of one-character strings, so      *)
(* that Split, TrimSpace, Index and slicing are computed as the code       *)
(* computes them.  Go indexes are 0-based; Slice(s, lo, hi) is s[lo:hi].   *)
(* An int (CTag.Line) is modelled by its decimal numeral, which keeps the  *)
(* full 64-bit range of strconv.Atoi.                                      *)
(***************************************************************************)
EXTENDS Integers, Sequences, FiniteSets

VARIABLES
    tags,         \* p.tags, the collection of the parser value
    mainFile,     \* p.mainFile
    pc,           \* the statement of Parse the parser is at: "idle" before a
                  \* call, the name of the stage to run next, "done" once
                  \* p.tags is returned, "panic" after a run-time panic
    ctagsOutput,  \* the buffer handed to the Parse call
    calls         \* the Parse calls made on the parser value

vars == <<tags, mainFile, pc, ctagsOutput, calls>>

----------------------------------------------------------------------------
(* Bounds of the model. *)

\* rows of one ctags output buffer
MaxRows == 3
\* Parse calls on one parser value, in SpecReuse
MaxCalls == 2
\* rows of a buffer in SpecReuse
MaxReuseRows == 2

----------------------------------------------------------------------------
(* Go strings.                                                            *)

\* s[lo:hi]
Slice(s, lo, hi) == SubSeq(s, lo + 1, hi)

\* sub occurs in s at index i
HasAt(s, sub, i) ==
    /\ i + Len(sub) <= Len(s)
    /\ \A k \in 1..Len(sub) : s[i + k] = sub[k]

\* the indexes at which sub occurs in s
Hits(s, sub) == {i \in 0..(Len(s) - Len(sub)) : HasAt(s, sub, i)}

\* strings.Index
Index(s, sub) ==
    LET hits == Hits(s, sub)
    IN  IF hits = {} THEN -1 ELSE CHOOSE i \in hits : \A j \in hits : i <= j

\* strings.LastIndex
LastIndex(s, sub) ==
    LET hits == Hits(s, sub)
    IN  IF hits = {} THEN -1 ELSE CHOOSE i \in hits : \A j \in hits : i >= j

\* strings.Contains
Contains(s, sub) == \E i \in 0..(Len(s) - Len(sub)) : HasAt(s, sub, i)

\* strings.Split for a separator of one character: the pieces of s between
\* the occurrences of sep, cut holding their indexes in increasing order
\* between -1 and len(s)
Split(s, sep) ==
    LET cut == <<-1>>
                 \o SelectSeq([i \in 1..Len(s) |-> i - 1], LAMBDA i : HasAt(s, sep, i))
                 \o <<Len(s)>>
    IN  [k \in 1..(Len(cut) - 1) |-> Slice(s, cut[k] + 1, cut[k + 1])]

RECURSIVE Replace(_, _, _)
\* strings.Replace(s, old, new, -1), for a non-empty old
Replace(s, old, new) ==
    LET i == Index(s, old)
    IN  IF i < 0 THEN s
        ELSE Slice(s, 0, i) \o new \o Replace(Slice(s, i + Len(old), Len(s)), old, new)

\* '\v' (U+000B), NEL (U+0085), NBSP (U+00A0) and the ogham space mark
\* (U+1680), which have no escape in a string of the module
VT == ""

NEL == ""

NBSP == " "

OGHAM_SPACE == " "

\* the White_Space runes from U+2000 up, which a string of the module cannot
\* hold: each is one character of the model, written as its Go escape
WideSpace ==
    { "\\u2000", "\\u2001", "\\u2002", "\\u2003", "\\u2004", "\\u2005",
      "\\u2006", "\\u2007", "\\u2008", "\\u2009", "\\u200a",
      "\\u2028", "\\u2029", "\\u202f", "\\u205f", "\\u3000" }

\* unicode.IsSpace: '\t' '\n' '\v' '\f' '\r' ' ', U+0085, U+00A0 and the
\* White_Space runes above Latin-1
WhiteSpace ==
    {"\t", "\n", VT, "\f", "\r", " ", NEL, NBSP, OGHAM_SPACE} \cup WideSpace

RECURSIVE TrimLeft(_)
TrimLeft(s) == IF s # <<>> /\ Head(s) \in WhiteSpace THEN TrimLeft(Tail(s)) ELSE s

RECURSIVE TrimRight(_)
TrimRight(s) ==
    IF s # <<>> /\ s[Len(s)] \in WhiteSpace
    THEN TrimRight(SubSeq(s, 1, Len(s) - 1))
    ELSE s

\* strings.TrimSpace
TrimSpace(s) == TrimRight(TrimLeft(s))

Digits == <<"0", "1", "2", "3", "4", "5", "6", "7", "8", "9">>

DigitSet == {Digits[i] : i \in 1..Len(Digits)}

DigitVal(c) == (CHOOSE i \in 1..Len(Digits) : Digits[i] = c) - 1

RECURSIVE StripZeros(_)
StripZeros(d) == IF Len(d) > 1 /\ Head(d) = "0" THEN StripZeros(Tail(d)) ELSE d

RECURSIVE NumeralLess(_, _)
\* a < b for decimal numerals without leading zeros
NumeralLess(a, b) ==
    IF Len(a) # Len(b) THEN Len(a) < Len(b)
    ELSE IF a = <<>> THEN FALSE
    ELSE IF Head(a) # Head(b) THEN DigitVal(Head(a)) < DigitVal(Head(b))
    ELSE NumeralLess(Tail(a), Tail(b))

\* 1<<63 - 1 and 1<<63, the magnitudes of the largest and smallest int
MaxIntNumeral == <<"9", "2", "2", "3", "3", "7", "2", "0", "3", "6", "8", "5", "4", "7", "7", "5", "8", "0", "7">>

MinIntMagnitude == <<"9", "2", "2", "3", "3", "7", "2", "0", "3", "6", "8", "5", "4", "7", "7", "5", "8", "0", "8">>

\* 1<<64 - 1, the largest uint64
MaxUintNumeral == <<"1", "8", "4", "4", "6", "7", "4", "4", "0", "7", "3", "7", "0", "9", "5", "5", "1", "6", "1", "5">>

\* strconv.Atoi with its error dropped (val, _ := strconv.Atoi(value)): the
\* numeral of the int returned.  After an optional sign the digits are read
\* left to right: the read stops with a range error at the digit where the
\* value passes 1<<64 - 1, without looking at what follows, and with a syntax
\* error at a character that is no digit or on an empty body.  A syntax
\* error returns 0; a range error, or a value outside the int range, returns
\* the nearest int.
Atoi(s) ==
    LET signed == s # <<>> /\ Head(s) \in {"+", "-"}
        neg    == s # <<>> /\ Head(s) = "-"
        body   == IF signed THEN Tail(s) ELSE s
        bad    == {i \in 1..Len(body) : body[i] \notin DigitSet}
        stop   == IF bad = {} THEN Len(body) + 1
                  ELSE CHOOSE i \in bad : \A j \in bad : i <= j
        mag    == StripZeros(SubSeq(body, 1, stop - 1))
        over   == NumeralLess(MaxUintNumeral, mag)
        syntax == ~over /\ (body = <<>> \/ stop <= Len(body))
        limit  == IF neg THEN MinIntMagnitude ELSE MaxIntNumeral
        clamp  == IF NumeralLess(limit, mag) THEN limit ELSE mag
    IN  IF syntax THEN <<"0">>
        ELSE IF neg /\ clamp # <<"0">> THEN <<"-">> \o clamp
        ELSE clamp

----------------------------------------------------------------------------
(* Constants of the package.                                              *)

KIND_PROTOTYPE == <<"p", "r", "o", "t", "o", "t", "y", "p", "e">>

KIND_FUNCTION == <<"f", "u", "n", "c", "t", "i", "o", "n">>

TEMPLATE == <<"t", "e", "m", "p", "l", "a", "t", "e">>

STATIC == <<"s", "t", "a", "t", "i", "c">>

KNOWN_TAG_KINDS == {KIND_PROTOTYPE, KIND_FUNCTION}

TAB == <<"\t">>

NL == <<"\n">>

\* the markers around the code excerpt of a row
CODE_BEGIN == <<"/", "^">>

CODE_END == <<"$", "/", ";">>

----------------------------------------------------------------------------
(* parseTag.                                                              *)

\* &types.CTag{}: every field at its zero value
EmptyTag ==
    [FunctionName |-> <<>>, Filename |-> <<>>, Kind |-> <<>>, Line |-> <<"0">>,
     Typeref |-> <<>>, Signature |-> <<>>, Class |-> <<>>, Struct |-> <<>>,
     Namespace |-> <<>>, Prototype |-> <<>>, PrototypeModifiers |-> <<>>,
     Code |-> <<>>, SkipMe |-> FALSE]

\* the switch on a key:value part; acc carries the tag and the returntype local
SetField(acc, field, value) ==
    CASE field = <<"k", "i", "n", "d">>       -> [acc EXCEPT !.tag.Kind = value]
      [] field = <<"l", "i", "n", "e">>       -> [acc EXCEPT !.tag.Line = Atoi(value)]
      [] field = <<"t", "y", "p", "e", "r", "e", "f">>    -> [acc EXCEPT !.tag.Typeref = value]
      [] field = <<"s", "i", "g", "n", "a", "t", "u", "r", "e">>  -> [acc EXCEPT !.tag.Signature = value]
      [] field = <<"r", "e", "t", "u", "r", "n", "t", "y", "p", "e">> -> [acc EXCEPT !.returntype = value]
      [] field = <<"c", "l", "a", "s", "s">>      -> [acc EXCEPT !.tag.Class = value]
      [] field = <<"s", "t", "r", "u", "c", "t">>     -> [acc EXCEPT !.tag.Struct = value]
      [] field = <<"n", "a", "m", "e", "s", "p", "a", "c", "e">>  -> [acc EXCEPT !.tag.Namespace = value]
      [] OTHER                  -> acc

\* the body of the loop over parts[2:]
ApplyPart(acc, part) ==
    IF Contains(part, <<":">>)
    THEN LET colon == Index(part, <<":">>)
         IN  SetField(acc, Slice(part, 0, colon),
                      TrimSpace(Slice(part, colon + 1, Len(part))))
    ELSE acc

RECURSIVE ApplyParts(_, _)
ApplyParts(acc, parts) ==
    IF parts = <<>> THEN acc
    ELSE ApplyParts(ApplyPart(acc, Head(parts)), Tail(parts))

HasCode(row) == Contains(row, CODE_BEGIN) /\ Contains(row, CODE_END)

\* parseTag ends in a run-time panic: parts[1] with one part (index out of
\* range), or row[i+2 : j] with j < i+2 (slice bounds out of range)
parseTagPanics(row) ==
    \/ Len(Split(row, TAB)) < 2
    \/ HasCode(row) /\ Index(row, CODE_BEGIN) + 2 > Index(row, CODE_END)

parseTag(row) ==
    LET parts == Split(row, TAB)
        t0    == [EmptyTag EXCEPT
                     !.FunctionName = parts[1],
                     !.Filename = Replace(parts[2], <<"\\", "\\">>, <<"\\">>)]
        acc   == ApplyParts([tag |-> t0, returntype |-> <<>>],
                            SubSeq(parts, 3, Len(parts)))
        t1    == [acc.tag EXCEPT
                     !.Prototype = acc.returntype \o <<" ">> \o acc.tag.FunctionName
                                     \o acc.tag.Signature \o <<";">>]
    IN  IF HasCode(row)
        THEN [t1 EXCEPT !.Code = Slice(row, Index(row, CODE_BEGIN) + 2,
                                       Index(row, CODE_END))]
        ELSE t1

removeEmpty(rows) ==
    SelectSeq([i \in 1..Len(rows) |-> TrimSpace(rows[i])], LAMBDA row : Len(row) > 0)

----------------------------------------------------------------------------
(* The filter stages.                                                     *)

Range(ts) == {ts[i] : i \in 1..Len(ts)}

\* tagIsUnknown looking only for a missing kind
tagIsUnknown_OnlyMissing(tag) == tag.Kind = <<>>

tagIsUnknown(tag) == tag.Kind \notin KNOWN_TAG_KINDS

\* isHandled without the test of tag.Namespace
isHandled_NoNamespace(tag) ==
    IF tag.Class # <<>> THEN FALSE
    ELSE IF tag.Struct # <<>> THEN FALSE
    ELSE TRUE

isHandled(tag) ==
    IF tag.Class # <<>> THEN FALSE
    ELSE IF tag.Struct # <<>> THEN FALSE
    ELSE IF tag.Namespace # <<>> THEN FALSE
    ELSE TRUE

tagIsUnhandled(tag) == ~isHandled(tag)

\* skipTagsWhere without the test of tag.SkipMe
skipTagsWhere_Overwrite(ts, skipFunc) ==
    [i \in 1..Len(ts) |-> [ts[i] EXCEPT !.SkipMe = skipFunc[ts[i]]]]

\* skipFunc is the predicate as a function over the tags of ts
skipTagsWhere(ts, skipFunc) ==
    [i \in 1..Len(ts) |->
        IF ~ts[i].SkipMe THEN [ts[i] EXCEPT !.SkipMe = skipFunc[ts[i]]] ELSE ts[i]]

\* code[:strings.LastIndex(code, ")")+1]
UpToLastParen(code) == Slice(code, 0, LastIndex(code, <<")">>) + 1)

\* the texts the source reader may hand back for a template declaration
\* that starts before the tagged line: the declaration resolved from the
\* file, or the text of the tagged line alone when it cannot be resolved
findTemplateMultiline(tag) ==
    {<<"t", "e", "m", "p", "l", "a", "t", "e", " ", "<", "c", "l", "a", "s", "s", " ", "T", ">", "\n">> \o UpToLastParen(tag.Code), UpToLastParen(tag.Code)}

\* the tag takes the branch of addPrototype that calls findTemplateMultiline
NeedsMultiline(tag) ==
    Index(tag.Prototype, TEMPLATE) = 0 /\ Index(tag.Code, TEMPLATE) # 0

\* addPrototype cutting a template at its last ")" whether or not it has a "{"
addPrototype_CutAtParen(tag, multiline) ==
    IF Index(tag.Prototype, TEMPLATE) = 0
    THEN IF Index(tag.Code, TEMPLATE) = 0
         THEN [tag EXCEPT !.Prototype = UpToLastParen(tag.Code) \o <<";">>]
         ELSE [tag EXCEPT !.Prototype = multiline \o <<";">>]
    ELSE LET mods == IF Contains(tag.Code, STATIC \o <<" ">>)
                     THEN <<>> \o <<" ">> \o STATIC
                     ELSE <<>>
         IN  [tag EXCEPT !.PrototypeModifiers = TrimSpace(mods)]

\* addPrototype looking for STATIC without the space after it
addPrototype_StaticNoSpace(tag, multiline) ==
    IF Index(tag.Prototype, TEMPLATE) = 0
    THEN IF Index(tag.Code, TEMPLATE) = 0
         THEN LET code == IF Contains(tag.Code, <<"{">>)
                          THEN Slice(tag.Code, 0, Index(tag.Code, <<"{">>))
                          ELSE UpToLastParen(tag.Code)
              IN  [tag EXCEPT !.Prototype = code \o <<";">>]
         ELSE [tag EXCEPT !.Prototype = multiline \o <<";">>]
    ELSE LET mods == IF Contains(tag.Code, STATIC)
                     THEN <<>> \o <<" ">> \o STATIC
                     ELSE <<>>
         IN  [tag EXCEPT !.PrototypeModifiers = TrimSpace(mods)]

\* multiline is the text findTemplateMultiline returns for this tag
addPrototype(tag, multiline) ==
    IF Index(tag.Prototype, TEMPLATE) = 0
    THEN IF Index(tag.Code, TEMPLATE) = 0
         THEN LET code == IF Contains(tag.Code, <<"{">>)
                          THEN Slice(tag.Code, 0, Index(tag.Code, <<"{">>))
                          ELSE UpToLastParen(tag.Code)
              IN  [tag EXCEPT !.Prototype = code \o <<";">>]
         ELSE [tag EXCEPT !.Prototype = multiline \o <<";">>]
    ELSE LET mods == IF Contains(tag.Code, STATIC \o <<" ">>)
                     THEN <<>> \o <<" ">> \o STATIC
                     ELSE <<>>
         IN  [tag EXCEPT !.PrototypeModifiers = TrimSpace(mods)]

\* ml maps each tag that needs it to the text findTemplateMultiline returns
addPrototypes(ts, ml) ==
    [i \in 1..Len(ts) |->
        IF ~ts[i].SkipMe
        THEN addPrototype(ts[i], IF NeedsMultiline(ts[i]) THEN ml[ts[i]] ELSE <<>>)
        ELSE ts[i]]

\* removeDefinedProtypes collecting the texts of the prototype tags that are
\* not skipped only
removeDefinedProtypes_KeptOnly(ts) ==
    LET definedPrototypes ==
            {ts[i].Prototype :
                i \in {j \in 1..Len(ts) : ts[j].Kind = KIND_PROTOTYPE /\ ~ts[j].SkipMe}}
    IN  [i \in 1..Len(ts) |->
            IF ts[i].Prototype \in definedPrototypes
            THEN [ts[i] EXCEPT !.SkipMe = TRUE]
            ELSE ts[i]]

\* removeDefinedProtypes sparing the tags of kind prototype
removeDefinedProtypes_SparePrototypes(ts) ==
    LET definedPrototypes ==
            {ts[i].Prototype : i \in {j \in 1..Len(ts) : ts[j].Kind = KIND_PROTOTYPE}}
    IN  [i \in 1..Len(ts) |->
            IF ts[i].Prototype \in definedPrototypes /\ ts[i].Kind # KIND_PROTOTYPE
            THEN [ts[i] EXCEPT !.SkipMe = TRUE]
            ELSE ts[i]]

removeDefinedProtypes(ts) ==
    LET definedPrototypes ==
            {ts[i].Prototype : i \in {j \in 1..Len(ts) : ts[j].Kind = KIND_PROTOTYPE}}
    IN  [i \in 1..Len(ts) |->
            IF ts[i].Prototype \in definedPrototypes
            THEN [ts[i] EXCEPT !.SkipMe = TRUE]
            ELSE ts[i]]

RECURSIVE skipDuplicatesFrom(_, _, _)
\* the loop of skipDuplicates from tag i on, definedPrototypes being the map
skipDuplicatesFrom(ts, i, definedPrototypes) ==
    IF i > Len(ts) THEN ts
    ELSE IF ts[i].Prototype \notin definedPrototypes /\ ~ts[i].SkipMe
         THEN skipDuplicatesFrom(ts, i + 1, definedPrototypes \cup {ts[i].Prototype})
         ELSE skipDuplicatesFrom([ts EXCEPT ![i].SkipMe = TRUE], i + 1,
                                 definedPrototypes)

RECURSIVE skipDuplicatesFrom_SeenWhenSkipped(_, _, _)
skipDuplicatesFrom_SeenWhenSkipped(ts, i, definedPrototypes) ==
    IF i > Len(ts) THEN ts
    ELSE IF ts[i].Prototype \notin definedPrototypes
         THEN skipDuplicatesFrom_SeenWhenSkipped(
                  ts, i + 1, definedPrototypes \cup {ts[i].Prototype})
         ELSE skipDuplicatesFrom_SeenWhenSkipped(
                  [ts EXCEPT ![i].SkipMe = TRUE], i + 1, definedPrototypes)

\* skipDuplicates recording the text of a tag that is skipped already
skipDuplicates_SeenWhenSkipped(ts) == skipDuplicatesFrom_SeenWhenSkipped(ts, 1, {})

\* skipDuplicates taking the duplicates out of the collection
skipDuplicates_Remove(ts) ==
    SelectSeq(skipDuplicatesFrom(ts, 1, {}), LAMBDA t : ~t.SkipMe)

skipDuplicates(ts) == skipDuplicatesFrom(ts, 1, {})

\* the verdicts prototypeAndCodeDontMatch may give on the tags of ts: the
\* rule is the consistency filter's own choice, one verdict per tag
prototypeAndCodeDontMatch(ts) == [Range(ts) -> BOOLEAN]

----------------------------------------------------------------------------
(* The ctags output buffers of the model.                                 *)

RowPool ==
    { <<"f", "o", "o", "\t", "s", "k", "e", "t", "c", "h", ".", "i", "n", "o", "\t", "/", "^", "v", "o", "i", "d", " ", "f", "o", "o", "(", ")", " ", "{", "$", "/", ";", "\"", "\t", "k", "i", "n", "d", ":", "f", "u", "n", "c", "t", "i", "o", "n", "\t", "l", "i", "n", "e", ":", "3", "\t", "s", "i", "g", "n", "a", "t", "u", "r", "e", ":", "(", ")", "\t", "r", "e", "t", "u", "r", "n", "t", "y", "p", "e", ":", "v", "o", "i", "d">>,
      <<"f", "o", "o", "\t", "s", "k", "e", "t", "c", "h", ".", "i", "n", "o", "\t", "/", "^", "v", "o", "i", "d", " ", "f", "o", "o", "(", ")", ";", "$", "/", ";", "\"", "\t", "k", "i", "n", "d", ":", "p", "r", "o", "t", "o", "t", "y", "p", "e", "\t", "l", "i", "n", "e", ":", "1", "\t", "s", "i", "g", "n", "a", "t", "u", "r", "e", ":", "(", ")", "\t", "r", "e", "t", "u", "r", "n", "t", "y", "p", "e", ":", "v", "o", "i", "d">>,
      <<"f", "o", "o", "\t", "A", ".", "h", "\t", "/", "^", " ", " ", "v", "o", "i", "d", " ", "f", "o", "o", "(", ")", ";", "$", "/", ";", "\"", "\t", "k", "i", "n", "d", ":", "p", "r", "o", "t", "o", "t", "y", "p", "e", "\t", "l", "i", "n", "e", ":", "4", "\t", "c", "l", "a", "s", "s", ":", "A", "\t", "s", "i", "g", "n", "a", "t", "u", "r", "e", ":", "(", ")", "\t", "r", "e", "t", "u", "r", "n", "t", "y", "p", "e", ":", "v", "o", "i", "d">>,
      <<"f", "o", "o", "\t", "C", ":", "\\", "\\", "n", ".", "i", "n", "o", "\t", "/", "^", "v", "o", "i", "d", " ", "f", "o", "o", "(", ")", " ", "{", "$", "/", ";", "\"", "\t", "k", "i", "n", "d", ":", "f", "u", "n", "c", "t", "i", "o", "n", "\t", "l", "i", "n", "e", ":", "x", "\t", "n", "a", "m", "e", "s", "p", "a", "c", "e", ":", "N", "\t", "s", "i", "g", "n", "a", "t", "u", "r", "e", ":", "(", ")", "\t", "r", "e", "t", "u", "r", "n", "t", "y", "p", "e", ":", "v", "o", "i", "d">>,
      <<"x", "\t", "s", "k", "e", "t", "c", "h", ".", "i", "n", "o", "\t", "/", "^", "i", "n", "t", " ", "x", ";", "$", "/", ";", "\"", "\t", "k", "i", "n", "d", ":", "v", "a", "r", "i", "a", "b", "l", "e", "\t", "l", "i", "n", "e", ":", "2">>,
      <<"m", "\t", "S", ".", "h", "\t", "s", "t", "r", "u", "c", "t", ":", "S", "\t", "l", "i", "n", "e", ":", "9", "9", "9", "9", "9", "9", "9", "9", "9", "9", "9", "9", "9", "9", "9", "9", "9", "9", "9", "9", "\t", "b", "a", "r", "e">>,
      <<"a", "d", "d", "\t", "t", ".", "i", "n", "o", "\t", "/", "^", "t", "e", "m", "p", "l", "a", "t", "e", " ", "<", "t", "y", "p", "e", "n", "a", "m", "e", " ", "T", ">", " ", "T", " ", "a", "d", "d", "(", "T", " ", "a", ",", " ", "T", " ", "b", ")", " ", "{", "$", "/", ";", "\"", "\t", "k", "i", "n", "d", ":", "f", "u", "n", "c", "t", "i", "o", "n", "\t", "l", "i", "n", "e", ":", "5", "\t", "s", "i", "g", "n", "a", "t", "u", "r", "e", ":", "(", "T", " ", "a", ",", " ", "T", " ", "b", ")", "\t", "r", "e", "t", "u", "r", "n", "t", "y", "p", "e", ":", "t", "e", "m", "p", "l", "a", "t", "e", " ", "<", "t", "y", "p", "e", "n", "a", "m", "e", " ", "T", ">", " ", "T">>,
      <<"g", "\t", "t", ".", "i", "n", "o", "\t", "/", "^", "T", " ", "g", "(", "T", " ", "a", ")", " ", "{", "$", "/", ";", "\"", "\t", "k", "i", "n", "d", ":", "f", "u", "n", "c", "t", "i", "o", "n", "\t", "l", "i", "n", "e", ":", "1", "2", "\t", "s", "i", "g", "n", "a", "t", "u", "r", "e", ":", "(", "T", " ", "a", ")", "\t", "r", "e", "t", "u", "r", "n", "t", "y", "p", "e", ":", "t", "e", "m", "p", "l", "a", "t", "e", " ", "<", "c", "l", "a", "s", "s", " ", "T", ">", " ", "T">>,
      <<"h", "e", "l", "p", "e", "r", "\t", "s", ".", "i", "n", "o", "\t", "/", "^", "s", "t", "a", "t", "i", "c", " ", "v", "o", "i", "d", " ", "h", "e", "l", "p", "e", "r", "(", ")", " ", "{", "$", "/", ";", "\"", "\t", "k", "i", "n", "d", ":", "f", "u", "n", "c", "t", "i", "o", "n", "\t", "l", "i", "n", "e", ":", "7", "\t", "s", "i", "g", "n", "a", "t", "u", "r", "e", ":", "(", ")", "\t", "r", "e", "t", "u", "r", "n", "t", "y", "p", "e", ":", "v", "o", "i", "d">>,
      <<"s", "t", "a", "t", "i", "c", "I", "n", "i", "t", "\t", "s", ".", "i", "n", "o", "\t", "/", "^", "v", "o", "i", "d", " ", "s", "t", "a", "t", "i", "c", "I", "n", "i", "t", "(", ")", " ", "{", "$", "/", ";", "\"", "\t", "s", "i", "g", "n", "a", "t", "u", "r", "e", ":", "(", ")", "\t", "l", "i", "n", "e", ":", "9", "\t", "r", "e", "t", "u", "r", "n", "t", "y", "p", "e", ":", "v", "o", "i", "d", "\t", "k", "i", "n", "d", ":", "f", "u", "n", "c", "t", "i", "o", "n">>,
      <<"f", "o", "o", "\t">>,
      <<"a", "\t", "b", "\t", "$", "/", ";", "\"", "/", "^", "x">>,
      <<"n", "\t", "S", ".", "h", "\t", "k", "i", "n", "d", ":", "", "f", "u", "n", "c", "t", "i", "o", "n", "", "\t", "l", "i", "n", "e", ":", "9", "9", "9", "9", "9", "9", "9", "9", "9", "9", "9", "9", "9", "9", "9", "9", "9", "9", "9", "9", "x">>,
      <<" ", "", " ", "\r">> }

\* the rows of SpecReuse
ReusePool ==
    { <<"f", "o", "o", "\t", "s", "k", "e", "t", "c", "h", ".", "i", "n", "o", "\t", "/", "^", "v", "o", "i", "d", " ", "f", "o", "o", "(", ")", " ", "{", "$", "/", ";", "\"", "\t", "k", "i", "n", "d", ":", "f", "u", "n", "c", "t", "i", "o", "n", "\t", "l", "i", "n", "e", ":", "3", "\t", "s", "i", "g", "n", "a", "t", "u", "r", "e", ":", "(", ")", "\t", "r", "e", "t", "u", "r", "n", "t", "y", "p", "e", ":", "v", "o", "i", "d">>,
      <<"f", "o", "o", "\t", "s", "k", "e", "t", "c", "h", ".", "i", "n", "o", "\t", "/", "^", "v", "o", "i", "d", " ", "f", "o", "o", "(", ")", ";", "$", "/", ";", "\"", "\t", "k", "i", "n", "d", ":", "p", "r", "o", "t", "o", "t", "y", "p", "e", "\t", "l", "i", "n", "e", ":", "1", "\t", "s", "i", "g", "n", "a", "t", "u", "r", "e", ":", "(", ")", "\t", "r", "e", "t", "u", "r", "n", "t", "y", "p", "e", ":", "v", "o", "i", "d">>,
      <<"x", "\t", "s", "k", "e", "t", "c", "h", ".", "i", "n", "o", "\t", "/", "^", "i", "n", "t", " ", "x", ";", "$", "/", ";", "\"", "\t", "k", "i", "n", "d", ":", "v", "a", "r", "i", "a", "b", "l", "e", "\t", "l", "i", "n", "e", ":", "2">>,
      <<"h", "e", "l", "p", "e", "r", "\t", "s", ".", "i", "n", "o", "\t", "/", "^", "s", "t", "a", "t", "i", "c", " ", "v", "o", "i", "d", " ", "h", "e", "l", "p", "e", "r", "(", ")", " ", "{", "$", "/", ";", "\"", "\t", "k", "i", "n", "d", ":", "f", "u", "n", "c", "t", "i", "o", "n", "\t", "l", "i", "n", "e", ":", "7", "\t", "s", "i", "g", "n", "a", "t", "u", "r", "e", ":", "(", ")", "\t", "r", "e", "t", "u", "r", "n", "t", "y", "p", "e", ":", "v", "o", "i", "d">>,
      <<>> }

RECURSIVE JoinRows(_)
\* the buffer whose lines are rows
JoinRows(rows) ==
    IF Len(rows) = 1 THEN rows[1] ELSE rows[1] \o NL \o JoinRows(Tail(rows))

BuffersOf(pool, n) == {JoinRows(rows) : rows \in UNION {[1..k -> pool] : k \in 1..n}}

Buffers == BuffersOf(RowPool, MaxRows)

ReuseBuffers == BuffersOf(ReusePool, MaxReuseRows)

MainFiles == {<<"s", "k", "e", "t", "c", "h", ".", "i", "n", "o">>}

----------------------------------------------------------------------------
(* The parser.  pc names the statement of Parse the parser is at.         *)

Init ==
    /\ tags = <<>>
    /\ mainFile = <<>>
    /\ pc = "idle"
    /\ ctagsOutput = <<>>
    /\ calls = 0

\* the rows before the first one parseTag panics on (all of them if none)
DecodablePrefix(rows) ==
    LET bad == {i \in 1..Len(rows) : parseTagPanics(rows[i])}
    IN  IF bad = {} THEN rows
        ELSE SubSeq(rows, 1, (CHOOSE i \in bad : \A j \in bad : i <= j) - 1)

\* Parse up to the end of the decode loop
Decode(buf, mf) ==
    \E rows \in {removeEmpty(Split(buf, NL))} :
    \E ok \in {DecodablePrefix(rows)} :
       /\ ctagsOutput' = buf
       /\ mainFile' = mf
       /\ calls' = calls + 1
       /\ tags' = tags \o [i \in 1..Len(ok) |-> parseTag(ok[i])]
       /\ pc' = IF Len(ok) = Len(rows) THEN "tagIsUnknown" ELSE "panic"

\* Parse, with a buffer of bufs, on a parser value that has not parsed yet
Parse(bufs) ==
    /\ pc = "idle"
    /\ \E buf \in bufs, mf \in MainFiles : Decode(buf, mf)

\* Parse, with a buffer of bufs, on a parser value that has parsed before
ParseAgain(bufs) ==
    /\ pc = "done"
    /\ calls < MaxCalls
    /\ \E buf \in bufs, mf \in MainFiles : Decode(buf, mf)

SkipUnknown ==
    /\ pc = "tagIsUnknown"
    /\ tags' = skipTagsWhere(tags, [t \in Range(tags) |-> tagIsUnknown(t)])
    /\ pc' = "tagIsUnhandled"
    /\ UNCHANGED <<mainFile, ctagsOutput, calls>>

SkipUnhandled ==
    /\ pc = "tagIsUnhandled"
    /\ tags' = skipTagsWhere(tags, [t \in Range(tags) |-> tagIsUnhandled(t)])
    /\ pc' = "addPrototypes"
    /\ UNCHANGED <<mainFile, ctagsOutput, calls>>

AddPrototypes ==
    /\ pc = "addPrototypes"
    /\ \E ml \in [{t \in Range(tags) : ~t.SkipMe /\ NeedsMultiline(t)} ->
                    UNION {findTemplateMultiline(t) : t \in Range(tags)}] :
          /\ \A t \in DOMAIN ml : ml[t] \in findTemplateMultiline(t)
          /\ tags' = addPrototypes(tags, ml)
    /\ pc' = "removeDefinedProtypes"
    /\ UNCHANGED <<mainFile, ctagsOutput, calls>>

RemoveDefinedProtypes ==
    /\ pc = "removeDefinedProtypes"
    /\ tags' = removeDefinedProtypes(tags)
    /\ pc' = "skipDuplicates"
    /\ UNCHANGED <<mainFile, ctagsOutput, calls>>

SkipDuplicates ==
    /\ pc = "skipDuplicates"
    /\ tags' = skipDuplicates(tags)
    /\ pc' = "prototypeAndCodeDontMatch"
    /\ UNCHANGED <<mainFile, ctagsOutput, calls>>

\* the last stage and the return of p.tags
SkipInconsistent ==
    /\ pc = "prototypeAndCodeDontMatch"
    /\ \E skipFunc \in prototypeAndCodeDontMatch(tags) :
          tags' = skipTagsWhere(tags, skipFunc)
    /\ pc' = "done"
    /\ UNCHANGED <<mainFile, ctagsOutput, calls>>

\* the caller drops the parser and makes a new one: &CTagsParser{}
NewParser ==
    /\ pc = "done"
    /\ tags' = <<>>
    /\ mainFile' = <<>>
    /\ pc' = "idle"
    /\ ctagsOutput' = <<>>
    /\ calls' = 0

Stages ==
    \/ SkipUnknown
    \/ SkipUnhandled
    \/ AddPrototypes
    \/ RemoveDefinedProtypes
    \/ SkipDuplicates
    \/ SkipInconsistent

Next ==
    \/ Parse(Buffers)
    \/ Stages
    \/ NewParser

\* every Parse call is made on a parser value of its own
Spec == Init /\ [][Next]_vars

NextReuse ==
    \/ Parse(ReuseBuffers)
    \/ ParseAgain(ReuseBuffers)
    \/ Stages
    \/ NewParser

\* a parser value may be handed to Parse again
SpecReuse == Init /\ [][NextReuse]_vars

----------------------------------------------------------------------------
(* Properties.                                                            *)

Unscoped(t) == t.Class = <<>> /\ t.Struct = <<>> /\ t.Namespace = <<>>

\* Parse is past its decode loop: tags holds the collection of the call
InStages == pc \notin {"idle", "panic"}

\* the lines of the buffer of the call that have a character outside WhiteSpace
NonBlankLines ==
    LET lines == Split(ctagsOutput, NL)
    IN  SelectSeq(lines, LAMBDA l : \E k \in 1..Len(l) : l[k] \notin WhiteSpace)

\* the fields of a tag that parseTag sets and no stage is meant to touch
Decoded(t) ==
    <<t.FunctionName, t.Filename, t.Kind, t.Line, t.Typeref, t.Signature,
      t.Class, t.Struct, t.Namespace, t.Code>>

\* a prototype tag and a function tag, both unscoped, with the same text
ShadowPair(i, j) ==
    /\ tags[i].Kind = KIND_PROTOTYPE
    /\ tags[j].Kind = KIND_FUNCTION
    /\ tags[i].Prototype = tags[j].Prototype
    /\ Unscoped(tags[i])
    /\ Unscoped(tags[j])

\* C1 as stated: in the collection Parse returns, a function tag whose
\* declaration text equals that of a prototype tag is suppressed and the
\* prototype tag is kept.
C1_ShadowingKeepsPrototype ==
    pc = "done" =>
        \A i, j \in 1..Len(tags) :
            ShadowPair(i, j) => tags[j].SkipMe /\ ~tags[i].SkipMe

\* C1 amended: in the collection Parse returns, a function tag whose
\* declaration text equals that of a prototype tag is suppressed, and so is
\* the prototype tag, whose own text is among the defined prototypes.
C1_ShadowingSuppressesBoth ==
    pc = "done" =>
        \A i, j \in 1..Len(tags) :
            ShadowPair(i, j) => tags[j].SkipMe /\ tags[i].SkipMe

C1_Witness ==
    /\ pc = "done"
    /\ \E i, j \in 1..Len(tags) :
          ShadowPair(i, j) /\ j < i /\ tags[j].SkipMe /\ tags[i].SkipMe

\* C2: Parse never aborts: on every buffer the decode loop and the stages
\* run to the end and no run-time panic is reached.
C2_ParseNeverAborts == pc # "panic"

\* C3: across the stages of Parse, a tag whose SkipMe is true keeps it true:
\* no stage resets the flag, whatever its predicate returns.
C3_SkipMeWriteOnce ==
    [][InStages /\ pc # "done" =>
          /\ Len(tags') = Len(tags)
          /\ \A i \in 1..Len(tags) : tags[i].SkipMe => tags'[i].SkipMe]_vars

\* a tag skipped for its kind has come through the scope stage, whose
\* predicate is false of it
C3_Witness ==
    /\ pc = "addPrototypes"
    /\ \E i \in 1..Len(tags) : tags[i].SkipMe /\ Unscoped(tags[i])

\* C4: a step of skipDuplicates leaves unsuppressed exactly the tags that
\* were unsuppressed on entry and have no earlier tag, unsuppressed on
\* entry, with the same declaration text; tags suppressed on entry stay so
\* and do not count as earlier occurrences.
C4_Deduplication ==
    [][pc = "skipDuplicates" =>
          /\ Len(tags') = Len(tags)
          /\ \A i \in 1..Len(tags) :
                ~tags'[i].SkipMe <=>
                    /\ ~tags[i].SkipMe
                    /\ \A j \in 1..(i - 1) :
                          tags[j].SkipMe \/ tags[j].Prototype # tags[i].Prototype]_vars

\* after skipDuplicates: three tags with one text, the first skipped before
\* the stage (it is scoped), the second kept, the third skipped
C4_Witness ==
    /\ pc = "prototypeAndCodeDontMatch"
    /\ \E i, j, k \in 1..Len(tags) :
          /\ i < j /\ j < k
          /\ tags[i].Prototype = tags[j].Prototype
          /\ tags[j].Prototype = tags[k].Prototype
          /\ ~Unscoped(tags[i]) /\ tags[i].SkipMe
          /\ ~tags[j].SkipMe
          /\ Unscoped(tags[k]) /\ tags[k].SkipMe

\* C5: on a parser value of its own, from the end of the decode loop to the
\* return of Parse the collection holds one tag for each non-blank line of
\* the buffer, in the order of the lines (no stage adds, removes or
\* reorders tags), and the returned tags are those decoded from the lines.
C5_OrderAndMembership ==
    InStages =>
        LET lines == NonBlankLines
        IN  /\ Len(tags) = Len(lines)
            /\ \A i \in 1..Len(tags) :
                  tags[i].FunctionName = Split(TrimSpace(lines[i]), TAB)[1]
            /\ pc = "done" =>
                  \A i \in 1..Len(tags) :
                      Decoded(tags[i]) = Decoded(parseTag(TrimSpace(lines[i])))

\* the returned collection of a buffer with a blank line, holding a
\* suppressed tag before a kept one
C5_Witness ==
    /\ pc = "done"
    /\ Len(Split(ctagsOutput, NL)) > Len(tags)
    /\ \E i, j \in 1..Len(tags) : i < j /\ tags[i].SkipMe /\ ~tags[j].SkipMe

\* C6: in the collection Parse returns, every tag whose kind is neither
\* "function" nor "prototype" (a missing kind included) is suppressed.
C6_KindFiltering ==
    pc = "done" =>
        \A i \in 1..Len(tags) :
            tags[i].Kind \notin {KIND_FUNCTION, KIND_PROTOTYPE} => tags[i].SkipMe

\* a returned collection with a tag of a kind that is not known and not
\* empty, unscoped, and a tag with no kind
C6_Witness ==
    /\ pc = "done"
    /\ \E i, j \in 1..Len(tags) :
          /\ tags[i].Kind \notin {<<>>, KIND_FUNCTION, KIND_PROTOTYPE}
          /\ Unscoped(tags[i])
          /\ tags[i].SkipMe
          /\ tags[j].Kind = <<>>
          /\ tags[j].SkipMe

\* C7: in the collection Parse returns, every tag with a non-empty class,
\* struct or namespace is suppressed, whatever its kind; and the scope stage
\* itself never suppresses a tag whose three scope fields are empty.
C7_ScopeFiltering ==
    /\ [](pc = "done" =>
            \A i \in 1..Len(tags) : ~Unscoped(tags[i]) => tags[i].SkipMe)
    /\ [][pc = "tagIsUnhandled" =>
            \A i \in 1..Len(tags) :
                ~tags[i].SkipMe /\ Unscoped(tags[i]) => ~tags'[i].SkipMe]_vars

\* a returned collection with a scoped function tag, suppressed, and an
\* unscoped tag that is kept
C7_Witness ==
    /\ pc = "done"
    /\ \E i, j \in 1..Len(tags) :
          /\ tags[i].Kind = KIND_FUNCTION
          /\ tags[i].Namespace # <<>>
          /\ tags[i].SkipMe
          /\ Unscoped(tags[j])
          /\ ~tags[j].SkipMe

\* C8: the collection a Parse call returns holds the tags of the buffer of
\* that call and no others, also when the parser value has parsed before.
C8_NoStateCrossesCalls ==
    pc = "done" =>
        /\ Len(tags) = Len(NonBlankLines)
        /\ \A i \in 1..Len(tags) :
              Decoded(tags[i]) = Decoded(parseTag(TrimSpace(NonBlankLines[i])))

ADD_SNIPPET == <<"t", "e", "m", "p", "l", "a", "t", "e", " ", "<", "t", "y", "p", "e", "n", "a", "m", "e", " ", "T", ">", " ", "T", " ", "a", "d", "d", "(", "T", " ", "a", ",", " ", "T", " ", "b", ")", " ", "{">>

\* the tag the template claim is about, before addPrototypes
IsAddTemplate(t) ==
    ~t.SkipMe /\ Index(t.Prototype, TEMPLATE) = 0 /\ t.Code = ADD_SNIPPET

\* C9 as stated: addPrototype turns the snippet
\* "template <typename T> T add(T a, T b) {" into the declaration
\* "template <typename T> T add(T a, T b);".
C9_TemplateWithoutSpace ==
    [][pc = "addPrototypes" =>
          \A i \in 1..Len(tags) :
              IsAddTemplate(tags[i]) =>
                  tags'[i].Prototype = <<"t", "e", "m", "p", "l", "a", "t", "e", " ", "<", "t", "y", "p", "e", "n", "a", "m", "e", " ", "T", ">", " ", "T", " ", "a", "d", "d", "(", "T", " ", "a", ",", " ", "T", " ", "b", ")", ";">>]_vars

\* C9 amended: addPrototype turns the snippet into the text before its
\* first "{", the space before the brace included, closed with ";":
\* "template <typename T> T add(T a, T b) ;".
C9_TemplateReconstruction ==
    [][pc = "addPrototypes" =>
          \A i \in 1..Len(tags) :
              IsAddTemplate(tags[i]) =>
                  tags'[i].Prototype = <<"t", "e", "m", "p", "l", "a", "t", "e", " ", "<", "t", "y", "p", "e", "n", "a", "m", "e", " ", "T", ">", " ", "T", " ", "a", "d", "d", "(", "T", " ", "a", ",", " ", "T", " ", "b", ")", " ", ";">>]_vars

C9_Witness ==
    /\ pc = "removeDefinedProtypes"
    /\ \E i \in 1..Len(tags) :
          /\ ~tags[i].SkipMe
          /\ tags[i].Code = ADD_SNIPPET
          /\ tags[i].Prototype = <<"t", "e", "m", "p", "l", "a", "t", "e", " ", "<", "t", "y", "p", "e", "n", "a", "m", "e", " ", "T", ">", " ", "T", " ", "a", "d", "d", "(", "T", " ", "a", ",", " ", "T", " ", "b", ")", " ", ";">>

\* C10: for every tag that comes to addPrototypes unsuppressed with a
\* declaration text that does not begin with "template", the step sets the
\* modifiers to "static" if the code excerpt has "static" followed by a
\* space and to the empty string otherwise, and leaves the text as it was.
C10_StaticModifier ==
    [][pc = "addPrototypes" =>
          \A i \in 1..Len(tags) :
              ~tags[i].SkipMe /\ ~HasAt(tags[i].Prototype, <<"t", "e", "m", "p", "l", "a", "t", "e">>, 0) =>
                  /\ tags'[i].PrototypeModifiers =
                        IF \E k \in 0..Len(tags[i].Code) :
                               HasAt(tags[i].Code, <<"s", "t", "a", "t", "i", "c", " ">>, k)
                        THEN <<"s", "t", "a", "t", "i", "c">>
                        ELSE <<>>
                  /\ tags'[i].Prototype = tags[i].Prototype]_vars

\* after addPrototypes: a tag with "static " in its excerpt and the
\* modifier, and a tag with "static" inside a name and no modifier
C10_Witness ==
    /\ pc = "removeDefinedProtypes"
    /\ \E i, j \in 1..Len(tags) :
          /\ ~tags[i].SkipMe
          /\ Contains(tags[i].Code, <<"s", "t", "a", "t", "i", "c", " ", "v", "o", "i", "d">>)
          /\ tags[i].PrototypeModifiers = <<"s", "t", "a", "t", "i", "c">>
          /\ ~tags[j].SkipMe
          /\ Contains(tags[j].Code, <<"s", "t", "a", "t", "i", "c", "I", "n", "i", "t">>)
          /\ tags[j].PrototypeModifiers = <<>>

LINE_KEY == <<"l", "i", "n", "e", ":">>

\* value is the text of an int: an optional sign and digits, within 64 bits
IsIntText(value) ==
    LET signed == value # <<>> /\ Head(value) \in {"+", "-"}
        body   == IF signed THEN Tail(value) ELSE value
        limit  == IF value # <<>> /\ Head(value) = "-"
                  THEN MinIntMagnitude ELSE MaxIntNumeral
    IN  /\ body # <<>>
        /\ \A k \in 1..Len(body) : body[k] \in DigitSet
        /\ ~NumeralLess(limit, StripZeros(body))

\* the value of the last line: part of a row, the one parseTag ends up with
LineValue(row) ==
    LET parts == Split(row, TAB)
        at    == {k \in 3..Len(parts) : HasAt(parts[k], LINE_KEY, 0)}
        last  == CHOOSE k \in at : \A j \in at : j <= k
    IN  TrimSpace(Slice(parts[last], Len(LINE_KEY), Len(parts[last])))

HasLinePart(row) ==
    \E k \in 3..Len(Split(row, TAB)) : HasAt(Split(row, TAB)[k], LINE_KEY, 0)

RECURSIVE JoinTab(_)
JoinTab(parts) ==
    IF Len(parts) = 1 THEN parts[1] ELSE parts[1] \o TAB \o JoinTab(Tail(parts))

\* the row with every line: part given the value 1
WithValidLine(row) ==
    LET parts == Split(row, TAB)
    IN  JoinTab([k \in 1..Len(parts) |->
                    IF k >= 3 /\ HasAt(parts[k], LINE_KEY, 0)
                    THEN LINE_KEY \o <<"1">>
                    ELSE parts[k]])

\* C11: a row whose line: value is not the text of an int (not digits, empty,
\* or digits out of the int range) is decoded without error into a tag with
\* Line 0 and every other field as for the same row with a valid line value.
C11_BadLineDefaultsToZero ==
    pc = "tagIsUnknown" =>
        \A i \in 1..Len(tags) :
            LET row == TrimSpace(NonBlankLines[i])
            IN  HasLinePart(row) /\ ~IsIntText(LineValue(row)) =>
                    /\ tags[i].Line = <<"0">>
                    /\ [tags[i] EXCEPT !.Line = <<"0">>]
                         = [parseTag(WithValidLine(row)) EXCEPT !.Line = <<"0">>]

\* C12: a step of removeDefinedProtypes leaves a tag suppressed if and only
\* if it was suppressed on entry or its declaration text is that of some tag
\* of kind "prototype" in the collection, whether or not that prototype tag
\* was itself suppressed by the kind and scope stages; tags of every kind,
\* the prototype tags included, are matched.
C12_ShadowSetSemantics ==
    [][pc = "removeDefinedProtypes" =>
          /\ Len(tags') = Len(tags)
          /\ \A i \in 1..Len(tags) :
                tags'[i].SkipMe <=>
                    \/ tags[i].SkipMe
                    \/ \E j \in 1..Len(tags) :
                          /\ tags[j].Kind = KIND_PROTOTYPE
                          /\ tags[j].Prototype = tags[i].Prototype]_vars

\* after removeDefinedProtypes: a free function, suppressed, whose text is
\* carried by a class-scoped prototype and by no unscoped prototype
C12_Witness ==
    /\ pc = "skipDuplicates"
    /\ \E i, j \in 1..Len(tags) :
          /\ tags[i].Kind = KIND_FUNCTION
          /\ Unscoped(tags[i])
          /\ tags[i].SkipMe
          /\ tags[j].Kind = KIND_PROTOTYPE
          /\ tags[j].Class # <<>>
          /\ tags[j].Prototype = tags[i].Prototype
    /\ \A j \in 1..Len(tags) : tags[j].Kind = KIND_PROTOTYPE => ~Unscoped(tags[j])

====
